---- MODULE Spec2Model ----
(***************************************************************************)
(* Model of management/editor/elements.go: the form widgets Input,        *)
(* Textarea, Timestamp, File, Richtext, Select, Checkbox and Tags, the    *)
(* dom* writers they share, and the reflection helpers that resolve a     *)
(* struct field name to its json tag and current value.                   *)
(*                                                                         *)
(* A Go string is a sequence of atoms.  An atom is one character that the *)
(* code treats specially (space, < > & ' " and the digits and sign that   *)
(* %d prints), or a run of ordinary text.  Concatenation is \o, the empty *)
(* string is << >>.  The markup a widget returns is the sequence of the   *)
(* atoms it writes, in the order it writes them.  Fixed template text is  *)
(* one atom per piece; the long templates (File, Richtext, Tags) are      *)
(* abridged between the places where the code splices a value in, and     *)
(* every splice is kept.                                                  *)
(*                                                                         *)
(* A Go map is a function; ranging over it visits every key once in an    *)
(* order the language leaves unspecified, so every range statement takes  *)
(* its order as an argument and the actions choose it freely.  A panic is *)
(* a result with panic = TRUE.                                            *)
(***************************************************************************)
EXTENDS Integers, Sequences, FiniteSets, Bags, TLC

VARIABLES
    p,          \* the content struct behind the pointer p: [nil, v]
    attrs,      \* the caller's attrs map: [nil, m]
    options,    \* the caller's options map (a function)
    pc,         \* "ready" before the call, then "returned" or "panicked"
    fn,         \* the widget function called
    fieldName,  \* its fieldName argument
    argAttrs,   \* the attrs map as it was when the call was made
    out         \* the markup returned

vars == <<p, attrs, options, pc, fn, fieldName, argAttrs, out>>

\* ---------------------------------------------------------------- bounds

MaxTags == 2
MaxOpts == 2
MaxAttrs == 2

\* ---------------------------------------------------------------- strings

\* The empty Go string.
Empty == << >>

\* A name (field name, json tag, map key, tag name) as a Go string.
S(name) == IF name = "" THEN Empty ELSE <<name>>

RECURSIVE Concat(_)
\* The concatenation of a sequence of strings.
Concat(ss) == IF ss = << >> THEN << >> ELSE Head(ss) \o Concat(Tail(ss))

Digit == <<"0", "1", "2", "3", "4", "5", "6", "7", "8", "9">>

RECURSIVE Digits(_)
Digits(n) == IF n < 10 THEN <<Digit[n + 1]>> ELSE Digits(n \div 10) \o <<Digit[(n % 10) + 1]>>

\* A %d that loses the sign.
ItoaUnsigned(n) == IF n < 0 THEN Digits(0 - n) ELSE Digits(n)

\* fmt.Sprintf("%d", n)
Itoa(n) == IF n < 0 THEN <<"-">> \o Digits(0 - n) ELSE Digits(n)

\* html.EscapeString: the five characters < > & ' " become entities.
EscapeAtom(c) ==
    CASE c = "<" -> "&lt;"
      [] c = ">" -> "&gt;"
      [] c = "&" -> "&amp;"
      [] c = "'" -> "&#39;"
      [] c = "\"" -> "&#34;"
      [] OTHER -> c

EscapeString(s) == [i \in 1..Len(s) |-> EscapeAtom(s[i])]

\* strings.Join(strings.Split(s, " "), "-")
DashJoin(s) == [i \in 1..Len(s) |-> IF s[i] = " " THEN "-" ELSE s[i]]

\* ---------------------------------------------------------------- maps

RECURSIVE Perms(_)
\* The orders in which a range statement can visit the keys K.
Perms(K) == IF K = {} THEN {<< >>}
            ELSE UNION {{<<k>> \o r : r \in Perms(K \ {k})} : k \in K}

\* m[k] of a Go map: the zero value "" for a missing key (and for a nil map).
Get(m, k) == IF k \in DOMAIN m THEN m[k] ELSE Empty

\* m[k] = v
Put(m, k, v) == [x \in (DOMAIN m) \cup {k} |-> IF x = k THEN v ELSE m[x]]

\* ---------------------------------------------------------------- the struct

\* The content type p points to:
\*   Title    string   `json:"title"`
\*   Posted   int64    `json:"posted"`
\*   Category []string `json:"category"`
\*   Legacy   []string                      (no json tag)
StructFields == {"Title", "Posted", "Category", "Legacy"}

FieldKind(f) ==
    CASE f = "Title" -> "string"
      [] f = "Posted" -> "int"
      [] OTHER -> "slice"

HasJsonTag(f) == f # "Legacy"

JsonTag(f) ==
    CASE f = "Title" -> "title"
      [] f = "Posted" -> "posted"
      [] OTHER -> "category"

\* ---------------------------------------------------------------- reflection

\* A panic unwinding through the caller: no value, no markup.
Panic == [panic |-> TRUE, v |-> << >>, kind |-> "invalid", val |-> << >>,
          n |-> 0, list |-> << >>, out |-> << >>]

\* tagNameFromStructField: "" for the empty name, a panic for a name that is
\* no field or a field without a json tag, the tag otherwise.
tagNameFromStructField(name, post) ==
    IF name = "" THEN [panic |-> FALSE, v |-> Empty]
    ELSE IF name \notin StructFields THEN Panic
    ELSE IF ~HasJsonTag(name) THEN Panic
    ELSE [panic |-> FALSE, v |-> S(JsonTag(name))]

\* A multi-value name that counts from 1.
tagNameFromStructFieldMultiFromOne(name, i, post) ==
    LET tag == tagNameFromStructField(name, post)
    IN  IF tag.panic THEN Panic
        ELSE [panic |-> FALSE, v |-> tag.v \o <<".">> \o Itoa(i + 1)]

\* tagNameFromStructFieldMulti: fmt.Sprintf("%s.%d", tag, i)
tagNameFromStructFieldMulti(name, i, post) ==
    LET tag == tagNameFromStructField(name, post)
    IN  IF tag.panic THEN Panic
        ELSE [panic |-> FALSE, v |-> tag.v \o <<".">> \o Itoa(i)]

\* valueFromStructField: reflect.Indirect(reflect.ValueOf(post)).FieldByName(name).
\* A nil pointer gives the zero Value, on which FieldByName panics; a name that
\* is no field gives the zero (invalid) Value.
valueFromStructField(name, post) ==
    IF post.nil THEN Panic
    ELSE IF name \notin StructFields THEN [panic |-> FALSE, kind |-> "invalid", val |-> Empty]
    ELSE [panic |-> FALSE, kind |-> FieldKind(name), val |-> post.v[name]]

\* reflect.Value.String: the string of a string Value, "<T Value>" otherwise.
ValueString(val) ==
    CASE val.kind = "string" -> val.val
      [] val.kind = "int" -> <<"<", "int64 Value", ">">>
      [] val.kind = "slice" -> <<"<", "[]string Value", ">">>
      [] OTHER -> <<"<", "invalid Value", ">">>

\* A lenient Int: 0 for a Value that is not an integer, instead of a panic.
ValueIntLenient(val) ==
    IF val.kind = "int" THEN [panic |-> FALSE, n |-> val.val] ELSE [panic |-> FALSE, n |-> 0]

\* reflect.Value.Int: panics on a Value that is not a signed integer.
ValueInt(val) ==
    IF val.kind = "int" THEN [panic |-> FALSE, n |-> val.val] ELSE Panic

\* v.Slice(0, v.Len()).Interface().([]string): Len panics on anything but a
\* slice or a string, and the type assertion panics on a string.
ValueStrings(val) ==
    IF val.kind = "slice" THEN [panic |-> FALSE, list |-> val.val] ELSE Panic

\* newElement: the element of a widget, its Name the field's tag and its data
\* the String() of the field's Value.
newElement(tagName, label, name, post, m) ==
    LET tag == tagNameFromStructField(name, post)
        val == valueFromStructField(name, post)
    IN  IF tag.panic \/ val.panic THEN Panic
        ELSE [panic |-> FALSE,
              e |-> [TagName |-> tagName, Attrs |-> m, Name |-> tag.v,
                     label |-> label, data |-> ValueString(val)]]

\* ---------------------------------------------------------------- dom writers

RECURSIVE WriteAttrsUntilLabel(_, _)
\* A loop that leaves the label out of the attributes with a break instead of
\* a continue: it writes nothing from the label on.
WriteAttrsUntilLabel(m, ord) ==
    IF ord = << >> \/ Head(ord) = "label" THEN << >>
    ELSE <<Head(ord), "=\"">> \o m[Head(ord)] \o <<"\" ">>
         \o WriteAttrsUntilLabel(m, Tail(ord))

\* for attr, value := range e.Attrs { write attr="value"  }, visiting in ord.
WriteAttrs(m, ord) ==
    Concat([i \in 1..Len(ord) |-> <<ord[i], "=\"">> \o m[ord[i]] \o <<"\" ">>])

\* <label class="active" for="...">label</label>, written when label != "".
ForLabel(open, label) ==
    IF label = Empty THEN << >>
    ELSE <<open>> \o DashJoin(label) \o <<"\">">> \o label \o <<"</label>">>

\* <label class="active">label</label>, written when label != "".
PlainLabel(label) ==
    IF label = Empty THEN << >>
    ELSE <<"<label class=\"active\">">> \o label \o <<"</label>">>

domElementSelfClose(e, ord) ==
    <<"<div class=\"input-field col s12\">">>
    \o ForLabel("<label class=\"active\" for=\"", e.label)
    \o <<"<", e.TagName, " value=\"">> \o EscapeString(e.data) \o <<"\" ">>
    \o WriteAttrs(e.Attrs, ord)
    \o <<" name=\"">> \o e.Name \o <<"\"", " />", "</div>">>

domElementCheckbox(e, ord) ==
    <<"<p class=\"col s6\">", "<", e.TagName, " ">>
    \o WriteAttrs(e.Attrs, ord)
    \o <<" name=\"">> \o e.Name \o <<"\"", " /> ">>
    \o ForLabel("<label for=\"", e.label)
    \o <<"</p>">>

domElement(e, ord) ==
    <<"<div class=\"input-field col s12\">">>
    \o ForLabel("<label class=\"active\" for=\"", e.label)
    \o <<"<", e.TagName, " ">>
    \o WriteAttrs(e.Attrs, ord)
    \o <<" name=\"">> \o e.Name \o <<"\"", " >">>
    \o EscapeString(e.data)
    \o <<"</", e.TagName, ">", "</div>">>

\* children[i] is written with domElement, its attributes in order kids[i].
domElementWithChildrenSelect(e, ord, children, kids) ==
    <<"<div class=\"input-field col s6\">", "<", e.TagName, " ">>
    \o WriteAttrs(e.Attrs, ord)
    \o <<" name=\"">> \o e.Name \o <<"\"", " >">>
    \o Concat([i \in 1..Len(children) |-> domElement(children[i], kids[i])])
    \o <<"</", e.TagName, ">">>
    \o PlainLabel(e.label)
    \o <<"</div>">>

domElementWithChildrenCheckbox(e, ord, children, kids) ==
    <<"<", e.TagName, " ">>
    \o WriteAttrs(e.Attrs, ord)
    \o <<" >">>
    \o PlainLabel(e.label)
    \o Concat([i \in 1..Len(children) |-> domElementCheckbox(children[i], kids[i])])
    \o <<"</", e.TagName, ">", "<div class=\"clear padding\">&nbsp;</div>">>

\* ---------------------------------------------------------------- widgets
\* Each widget gives [panic, out, attrs]: whether it panicked, the markup it
\* returned, and the caller's attrs map as the call left it.

Returned(markup, a) == [panic |-> FALSE, out |-> markup, attrs |-> a]
Panicked(a) == [panic |-> TRUE, out |-> << >>, attrs |-> a]

Input(name, post, a, ord) ==
    LET ne == newElement("input", Get(a.m, "label"), name, post, a.m)
    IN  IF ne.panic THEN Panicked(a)
        ELSE Returned(domElementSelfClose(ne.e, ord), a)

Textarea(name, post, a, ord) ==
    LET ne == newElement("textarea", Get(a.m, "label"), name, post, a.m)
    IN  IF ne.panic THEN Panicked(a)
        ELSE Returned(domElement(ne.e, ord), a)

Timestamp(name, post, a, ord) ==
    LET val == valueFromStructField(name, post)
        int == ValueInt(val)
        data == IF int.n = 0 THEN Empty ELSE Itoa(int.n)
        tag == tagNameFromStructField(name, post)
    IN  IF val.panic \/ int.panic \/ tag.panic THEN Panicked(a)
        ELSE Returned(domElementSelfClose(
                 [TagName |-> "input", Attrs |-> a.m, Name |-> tag.v,
                  label |-> Get(a.m, "label"), data |-> data], ord), a)

File(name, post, a) ==
    LET tag == tagNameFromStructField(name, post)
        val == valueFromStructField(name, post)
        label == Get(a.m, "label")
        tmpl ==
            <<"<div class=\"file-input ">> \o tag.v
            \o <<" input-field col s12\"><label class=\"active\">">> \o label
            \o <<"</label><div class=\"file-field input-field\"><div class=\"btn\"><span>Upload</span><input class=\"upload\" type=\"file\"></div><div class=\"file-path-wrapper\"><input class=\"file-path validate\" placeholder=\"">>
            \o label
            \o <<"\" type=\"text\"></div></div><div class=\"preview\"><div class=\"img-clip\"></div></div><input class=\"store ">>
            \o tag.v \o <<"\" type=\"hidden\" name=\"">> \o tag.v
            \o <<"\" value=\"">> \o ValueString(val) \o <<"\" /></div>">>
        script ==
            <<"<script>$(function() { var $file = $('.file-input.">> \o tag.v
            \o <<"'), upload = ..., store = ..., uploadSrc = store.val(); preview.hide(); // when ">>
            \o tag.v \o <<" input changes (file is selected), ... add the 'name' attr to ">>
            \o tag.v \o <<" input ... $(reset).addClass('reset ">> \o tag.v
            \o <<" btn waves-effect waves-light grey'); ... upload.attr('name', '">>
            \o tag.v \o <<"'); clip.empty(); } });</script>">>
    IN  IF tag.panic \/ val.panic THEN Panicked(a)
        ELSE Returned(tmpl \o script, a)

\* attrs["class"] = "richtext " + fieldName; attrs["id"] = "richtext-" + fieldName
RichtextAttrs(name, m) ==
    Put(Put(m, "class", <<"richtext", " ">> \o S(name)), "id", <<"richtext-">> \o S(name))

Richtext(name, post, a, ord) ==
    LET label == Get(a.m, "label")
        a2 == [nil |-> FALSE, m |-> RichtextAttrs(name, a.m)]
        div == [TagName |-> "div", Attrs |-> a2.m, Name |-> Empty,
                label |-> Empty, data |-> Empty]
        val == valueFromStructField(name, post)
        tag == tagNameFromStructField(name, post)
        input == <<"<input type=\"hidden\" name=\"">> \o tag.v
                 \o <<"\" class=\"richtext-value ">> \o S(name)
                 \o <<"\" value=\"">> \o EscapeString(ValueString(val)) \o <<"\"/>">>
        iso == <<"<div class=\"iso-texteditor input-field col s12\"><label>">> \o label
               \o <<"</label>">> \o domElement(div, ord) \o input \o <<"</div>">>
        script ==
            <<"<script>$(function() { var _editor = $('.richtext.">> \o S(name)
            \o <<"'); var hidden = $('.richtext-value.">> \o S(name)
            \o <<"'); _editor.materialnote({ height: 250, placeholder: '">>
            \o Get(a2.m, "placeholder")
            \o <<"', toolbar: [...], onImageUpload: ... }); ... });</script>">>
    IN  IF a.nil THEN Panicked(a)
        ELSE IF val.panic \/ tag.panic THEN Panicked(a2)
        ELSE Returned(iso \o script, a2)

\* attrs["class"] = "browser-default"
SelectAttrs(m) == Put(m, "class", <<"browser-default">>)

\* An option that is marked when its key is not the field's value.
SelectOptionInverted(k, v, fieldVal) ==
    [TagName |-> "option",
     Attrs |-> IF k # fieldVal
               THEN [x \in {"value", "selected"} |-> IF x = "value" THEN k ELSE <<"true">>]
               ELSE [x \in {"value"} |-> k],
     Name |-> Empty, label |-> Empty, data |-> v]

\* An option that is marked whatever its key.
SelectOptionAlways(k, v, fieldVal) ==
    [TagName |-> "option",
     Attrs |-> [x \in {"value", "selected"} |-> IF x = "value" THEN k ELSE <<"true">>],
     Name |-> Empty, label |-> Empty, data |-> v]

\* The option element of the entry k: v of options, marked as selected when k
\* is the field's value.
SelectOption(k, v, fieldVal) ==
    [TagName |-> "option",
     Attrs |-> IF k = fieldVal
               THEN [x \in {"value", "selected"} |-> IF x = "value" THEN k ELSE <<"true">>]
               ELSE [x \in {"value"} |-> k],
     Name |-> Empty, label |-> Empty, data |-> v]

\* The children of the select: the call to action, the reset, and one option
\* per entry of options in the order optOrd the range statement visits them.
SelectChildren(fieldVal, opts, optOrd) ==
    LET cta == [TagName |-> "option",
                Attrs |-> [x \in {"disabled", "selected"} |-> <<"true">>],
                Name |-> Empty, label |-> Empty, data |-> <<"Select an option...">>]
        reset == [TagName |-> "option", Attrs |-> [x \in {"value"} |-> Empty],
                  Name |-> Empty, label |-> Empty, data |-> <<"None">>]
    IN  <<cta, reset>>
        \o [i \in 1..Len(optOrd) |-> SelectOption(optOrd[i], opts[optOrd[i]], fieldVal)]

Select(name, post, a, opts, ord, optOrd, kids) ==
    LET val == valueFromStructField(name, post)
        a2 == [nil |-> FALSE, m |-> SelectAttrs(a.m)]
        sel == newElement("select", Get(a2.m, "label"), name, post, a2.m)
        children == SelectChildren(ValueString(val), opts, optOrd)
    IN  IF val.panic \/ a.nil THEN Panicked(a)
        ELSE IF sel.panic THEN Panicked(a2)
        ELSE Returned(domElementWithChildrenSelect(sel.e, ord, children, kids), a2)

\* attrs["class"] = "input-field col s12"
CheckboxAttrs(m) == Put(m, "class", <<"input-field col s12">>)

\* The name of the i-th input the loop builds (i counts from 0).
CheckboxName(name, i, post) == tagNameFromStructFieldMulti(name, i, post)

\* One checkbox input per entry of options, in the order optOrd the range
\* statement visits them; the i-th visited gets the name tag.i.
CheckboxChildren(name, post, checked, opts, optOrd) ==
    LET inputAttrs(k) ==
            LET base == [x \in {"type", "value", "id"} |->
                            CASE x = "type" -> <<"checkbox">>
                              [] x = "value" -> k
                              [] OTHER -> DashJoin(opts[k])]
            IN  IF \E j \in 1..Len(checked) : checked[j] = k
                THEN Put(base, "checked", <<"checked">>)
                ELSE base
    IN  [i \in 1..Len(optOrd) |->
            [TagName |-> "input", Attrs |-> inputAttrs(optOrd[i]),
             Name |-> CheckboxName(name, i - 1, post).v,
             label |-> opts[optOrd[i]], data |-> Empty]]

Checkbox(name, post, a, opts, ord, optOrd, kids) ==
    LET a2 == [nil |-> FALSE, m |-> CheckboxAttrs(a.m)]
        div == newElement("div", Get(a2.m, "label"), "", post, a2.m)
        checked == ValueStrings(valueFromStructField(name, post))
        children == CheckboxChildren(name, post, checked.list, opts, optOrd)
        namePanics == optOrd # << >> /\ tagNameFromStructFieldMulti(name, 0, post).panic
    IN  IF a.nil THEN Panicked(a)
        ELSE IF div.panic \/ checked.panic \/ namePanics THEN Panicked(a2)
        ELSE Returned(domElementWithChildrenCheckbox(div.e, ord, children, kids), a2)

RECURSIVE Join(_, _)
\* strings.Join(list, sep)
Join(list, sep) ==
    IF list = << >> THEN Empty
    ELSE IF Len(list) = 1 THEN list[1]
    ELSE list[1] \o sep \o Join(Tail(list), sep)

\* The hidden input of the i-th saved tag (i counts from 0).
TagInput(name, i, post, tag) ==
    <<"<input type=\"hidden\" class=\"tag-">> \o tag \o <<"\" name=">>
    \o tagNameFromStructFieldMulti(name, i, post).v
    \o <<" value=\"">> \o tag \o <<"\"/>">>

Tags(name, post, a) ==
    LET tagName == tagNameFromStructField(name, post)
        values == ValueStrings(valueFromStructField(name, post))
        tags == values.list
        html ==
            <<"<div class=\"input-field col s12 tags ">> \o tagName.v
            \o <<"\"><label class=\"active\">">> \o Get(a.m, "label")
            \o <<"</label><div class=\"chips ">> \o tagName.v \o <<"\"></div>">>
            \o Concat([i \in 1..Len(tags) |-> TagInput(name, i - 1, post, tags[i])])
        initial == [i \in 1..Len(tags) |-> <<"{tag: ">> \o tags[i] \o <<"}">>]
        script ==
            <<"<script>$(function() { var tags = $('.tags.">> \o tagName.v
            \o <<"'); $('.chips.">> \o tagName.v \o <<"').material_chip({ data: [">>
            \o Join(initial, <<",">>)
            \o <<"], placeholder: 'Type and press \"Enter\" to add ">> \o tagName.v
            \o <<"' }); ... chips.on('chip.add', ... name: '">> \o tagName.v
            \o <<".'+tags.find('input[type=hidden]').length-1, ... });</script>">>
    IN  IF tagName.panic \/ values.panic THEN Panicked(a)
        ELSE Returned(html \o <<"</div>">> \o script, a)

\* ---------------------------------------------------------------- inputs

\* The i-th saved tag: "z", "b", "z", ...
TagAt(i) == IF i % 2 = 1 THEN <<"z">> ELSE <<"b">>

\* The first n saved tags.
Saved(n) == [i \in 1..n |-> TagAt(i)]

\* The contents of the struct in the i-th sample.  Title: an option key, a
\* string with the characters html escapes, the empty string.  Posted: zero, a
\* negative and a positive number.  Category: no saved tag, one, MaxTags.
SampleStruct(i) ==
    [Title |-> CASE i = 0 -> <<"a">>
                 [] i = 1 -> <<"<", "q", "\"", "&">>
                 [] OTHER -> <<"b">>,
     Posted |-> CASE i = 0 -> 0
                  [] i = 1 -> 0 - 12
                  [] OTHER -> 305,
     Category |-> CASE i = 0 -> << >>
                    [] i = 1 -> Saved(1)
                    [] OTHER -> Saved(MaxTags),
     Legacy |-> Saved(1)]

\* The pointers a caller can pass: to each sample struct, and the nil pointer
\* of the struct's type.
Structs ==
    {[nil |-> FALSE, v |-> SampleStruct(i)] : i \in {0, 1, 2}}
    \cup {[nil |-> TRUE, v |-> SampleStruct(0)]}

\* The names a caller can pass: the fields, the empty name, and a name that is
\* the json tag of a field instead of the field.
FieldNames == StructFields \cup {"", "title"}

AttrKeyAt(i) ==
    CASE i = 1 -> "label"
      [] i = 2 -> "class"
      [] i = 3 -> "placeholder"
      [] OTHER -> "data-" \o ToString(i)

AttrValue(k) ==
    CASE k = "label" -> <<"My", " ", "title">>
      [] k = "class" -> <<"wide">>
      [] OTHER -> <<"hint">>

\* The attrs maps a caller can pass: the empty map, the map of the first
\* MaxAttrs keys, and the nil map.
AttrMaps ==
    {[nil |-> FALSE, m |-> [k \in {AttrKeyAt(i) : i \in 1..n} |-> AttrValue(k)]] :
        n \in {0, MaxAttrs}}
    \cup {[nil |-> TRUE, m |-> << >>]}

OptKeyAt(i) ==
    CASE i = 1 -> <<"a">>
      [] i = 2 -> <<"b">>
      [] OTHER -> <<"k">> \o Itoa(i)

OptText(k) ==
    CASE k = <<"a">> -> <<"Alpha", " ", "one">>
      [] k = <<"b">> -> <<"B", "&", "W">>
      [] OTHER -> <<"Other">>

\* The options maps a caller can pass: the first n keys.
OptionMaps ==
    {[k \in {OptKeyAt(i) : i \in 1..n} |-> OptText(k)] : n \in 0..MaxOpts}

RECURSIVE KidOrders(_)
\* The orders in which the attributes of each child can be visited.
KidOrders(children) ==
    IF children = << >> THEN {<< >>}
    ELSE {<<o>> \o rest : o \in Perms(DOMAIN Head(children).Attrs),
                          rest \in KidOrders(Tail(children))}

\* ---------------------------------------------------------------- the calls

Init ==
    /\ p \in Structs
    /\ attrs \in AttrMaps
    /\ options \in OptionMaps
    /\ pc = "ready"
    /\ fn = ""
    /\ fieldName = ""
    /\ argAttrs = attrs
    /\ out = << >>

\* The call f(name, ...) ends with result r.
Call(f, name, r) ==
    /\ pc' = IF r.panic THEN "panicked" ELSE "returned"
    /\ fn' = f
    /\ fieldName' = name
    /\ argAttrs' = attrs
    /\ attrs' = r.attrs
    /\ out' = r.out
    /\ UNCHANGED <<p, options>>

CallInput ==
    /\ pc = "ready"
    /\ \E name \in FieldNames, ord \in Perms(DOMAIN attrs.m) :
        Call("Input", name, Input(name, p, attrs, ord))

CallTextarea ==
    /\ pc = "ready"
    /\ \E name \in FieldNames, ord \in Perms(DOMAIN attrs.m) :
        Call("Textarea", name, Textarea(name, p, attrs, ord))

CallTimestamp ==
    /\ pc = "ready"
    /\ \E name \in FieldNames, ord \in Perms(DOMAIN attrs.m) :
        Call("Timestamp", name, Timestamp(name, p, attrs, ord))

CallFile ==
    /\ pc = "ready"
    /\ \E name \in FieldNames :
        Call("File", name, File(name, p, attrs))

CallRichtext ==
    /\ pc = "ready"
    /\ \E name \in FieldNames :
        \E ord \in Perms(DOMAIN RichtextAttrs(name, attrs.m)) :
            Call("Richtext", name, Richtext(name, p, attrs, ord))

CallSelect ==
    /\ pc = "ready"
    /\ \E name \in FieldNames, ord \in Perms(DOMAIN SelectAttrs(attrs.m)),
       optOrd \in Perms(DOMAIN options) :
        \E kids \in KidOrders(SelectChildren(
                        ValueString(valueFromStructField(name, p)), options, optOrd)) :
            Call("Select", name, Select(name, p, attrs, options, ord, optOrd, kids))

CallCheckbox ==
    /\ pc = "ready"
    /\ \E name \in FieldNames, ord \in Perms(DOMAIN CheckboxAttrs(attrs.m)),
       optOrd \in Perms(DOMAIN options) :
        \E kids \in KidOrders(CheckboxChildren(name, p,
                        ValueStrings(valueFromStructField(name, p)).list, options, optOrd)) :
            Call("Checkbox", name, Checkbox(name, p, attrs, options, ord, optOrd, kids))

CallTags ==
    /\ pc = "ready"
    /\ \E name \in FieldNames :
        Call("Tags", name, Tags(name, p, attrs))

Next ==
    \/ CallInput
    \/ CallTextarea
    \/ CallTimestamp
    \/ CallFile
    \/ CallRichtext
    \/ CallSelect
    \/ CallCheckbox
    \/ CallTags

Spec == Init /\ [][Next]_vars

\* ---------------------------------------------------------------- reading markup
\* What a reader of the returned markup finds in it.  These read the atoms the
\* widgets wrote; none of them is used by the widgets.

Min(A) == CHOOSE x \in A : \A y \in A : x <= y

\* The positions of atom a in markup m.
Pos(m, a) == {i \in 1..Len(m) : m[i] = a}

\* The first position of atom a at or after from; Len(m) + 1 when there is none.
NextPos(m, from, a) == Min({i \in from..Len(m) : m[i] = a} \cup {Len(m) + 1})

\* The n-th position of atom a (n counts from 1).
NthPos(m, a, n) == CHOOSE i \in Pos(m, a) : Cardinality({j \in Pos(m, a) : j < i}) = n - 1

\* The text after the first atom open at or after from, up to the next atom close.
Between(m, from, open, close) ==
    LET i == NextPos(m, from, open)
    IN  SubSeq(m, i + 1, NextPos(m, i + 1, close) - 1)

\* The character an html parser reads for an entity.
UnescapeAtom(c) ==
    CASE c = "&lt;" -> "<"
      [] c = "&gt;" -> ">"
      [] c = "&amp;" -> "&"
      [] c = "&#39;" -> "'"
      [] c = "&#34;" -> "\""
      [] OTHER -> c

Unescape(s) == [i \in 1..Len(s) |-> UnescapeAtom(s[i])]

IsDigits(s) == s # << >> /\ \A i \in 1..Len(s) : \E d \in 1..10 : Digit[d] = s[i]

RECURSIVE DigitsValue(_)
DigitsValue(s) ==
    IF s = << >> THEN 0
    ELSE 10 * DigitsValue(SubSeq(s, 1, Len(s) - 1))
         + ((CHOOSE d \in 1..10 : Digit[d] = s[Len(s)]) - 1)

\* s is the base-10 representation of n: digits without a leading zero, with
\* a minus sign for a negative number.
IsDecimalOf(s, n) ==
    LET neg == s # << >> /\ s[1] = "-"
        ds == IF neg THEN Tail(s) ELSE s
    IN  /\ IsDigits(ds)
        /\ Len(ds) > 1 => ds[1] # "0"
        /\ neg => ds # <<"0">>
        /\ n = IF neg THEN 0 - DigitsValue(ds) ELSE DigitsValue(ds)

\* The option elements of a select, in the order they were written: each from
\* its "<option" to the "</" that closes it.
OptionStarts(m) == {i \in 1..(Len(m) - 1) : m[i] = "<" /\ m[i + 1] = "option"}

OptionElements(m) ==
    LET starts == OptionStarts(m)
        nth(n) == CHOOSE i \in starts : Cardinality({j \in starts : j < i}) = n - 1
    IN  [n \in 1..Cardinality(starts) |->
            SubSeq(m, nth(n), NextPos(m, nth(n), "</") - 1)]

\* The attributes an element carries, and the value of one of them.
AttrNames(el) == {el[i - 1] : i \in {j \in 2..Len(el) : el[j] = "=\""}}

AttrOf(el, k) ==
    LET i == Min({j \in 2..Len(el) : el[j] = "=\"" /\ el[j - 1] = k})
    IN  SubSeq(el, i + 1, NextPos(el, i + 1, "\" ") - 1)

\* The text of an option element: what follows the " >" that ends its tag.
TextOf(el) == SubSeq(el, NextPos(el, 1, " >") + 1, Len(el))

\* The options of a select that were built from the options map: all but the
\* call to action and the reset, which are written first.
MapOptions(m) == LET els == OptionElements(m) IN SubSeq(els, 3, Len(els))

\* ---------------------------------------------------------------- claims

\* C1 (as claimed): a call whose fieldName is not the name of a field of the
\* struct, the empty name included, panics and returns no markup.
C1_UnknownFieldPanics ==
    (pc # "ready" /\ fieldName \notin StructFields) => (pc = "panicked" /\ out = << >>)

\* The kind of field a widget can read: Timestamp calls Int() on it, Checkbox
\* and Tags assert it to be a []string, the others take its String().
KindFits(f, name) ==
    CASE f = "Timestamp" -> FieldKind(name) = "int"
      [] f \in {"Checkbox", "Tags"} -> FieldKind(name) = "slice"
      [] OTHER -> TRUE

\* The widgets that write to the attrs map they are given.
WritesAttrs(f) == f \in {"Richtext", "Select", "Checkbox"}

\* C2 (as claimed): with the name of a field that carries a json tag, no call
\* aborts, whatever the kind of the field and whatever attrs is passed.
C2_TaggedFieldNeverPanics ==
    (pc # "ready" /\ ~p.nil /\ fieldName \in StructFields /\ HasJsonTag(fieldName))
        => pc = "returned"

\* C2 (amended): with the name of a field that carries a json tag, a call
\* returns markup exactly when p is not nil, the kind of the field is one the
\* widget can read, and attrs is not the nil map if the widget writes to it;
\* otherwise it panics.
C2_TaggedFieldReturnsIffReadable ==
    (pc # "ready" /\ fieldName \in StructFields /\ HasJsonTag(fieldName))
        => /\ pc = "returned" <=>
                (~p.nil /\ KindFits(fn, fieldName) /\ (WritesAttrs(fn) => ~argAttrs.nil))
           /\ pc = "returned" => out # << >>
           /\ pc = "panicked" => out = << >>

\* C2 witness: Timestamp has returned markup for the integer field.
C2_Witness == pc = "returned" /\ fn = "Timestamp" /\ fieldName = "Posted"

\* C3 (as claimed): the attrs map holds the same keys and values after a call
\* as before it.
C3_AttrsUnchanged == pc = "returned" => attrs = argAttrs

\* C7: Timestamp writes an empty value attribute exactly when the integer field
\* is 0, otherwise the base-10 representation of the field's value, negative
\* values included; the name attribute is the field's json tag.
C7_TimestampValue ==
    (pc = "returned" /\ fn = "Timestamp") =>
        LET n == p.v[fieldName]
            value == Between(out, 1, " value=\"", "\" ")
        IN  /\ value = Empty <=> n = 0
            /\ n # 0 => IsDecimalOf(value, n)
            /\ Between(out, 1, " name=\"", "\"") = S(JsonTag(fieldName))

\* C7 witness: Timestamp has returned markup for a negative field.
C7_Witness == pc = "returned" /\ fn = "Timestamp" /\ p.v[fieldName] < 0

\* What the claims call the current value of a field, as text: a string as it
\* is, an integer in base 10, a list with its items separated by commas.
CurrentValueText(name) ==
    CASE FieldKind(name) = "string" -> p.v[name]
      [] FieldKind(name) = "int" -> Itoa(p.v[name])
      [] OTHER -> Join(p.v[name], <<",">>)

\* The name attribute of the form control a widget wrote.
EmittedName ==
    CASE fn = "File" -> Between(out, 1, "\" type=\"hidden\" name=\"", "\" value=\"")
      [] fn = "Richtext" ->
            Between(out, 1, "<input type=\"hidden\" name=\"", "\" class=\"richtext-value ")
      [] OTHER -> Between(out, 1, " name=\"", "\"")

\* The value of the form control a widget wrote, as an html parser reads it:
\* the value attribute of the input (Input, File, Richtext), the text of the
\* textarea.
EmittedValue ==
    CASE fn = "Input" -> Unescape(Between(out, 1, " value=\"", "\" "))
      [] fn = "Textarea" -> Unescape(Between(out, 1, " >", "</"))
      [] fn = "File" -> Between(out, 1, "\" value=\"", "\" /></div>")
      [] OTHER -> Unescape(Between(out, 1, "\" value=\"", "\"/>"))

\* The map-built options of a select that carry the selected attribute.
SelectedMapOptions ==
    LET els == MapOptions(out)
    IN  {j \in 1..Len(els) : "selected" \in AttrNames(els[j])}

\* C4 (as claimed): for Input, Textarea, File, Richtext and Select and every
\* field that carries a json tag, the name of the control is the field's json
\* tag and its value is the field's current value (for Select: the option
\* marked as selected is the one of the current value).
C4_NameAndValue ==
    (pc = "returned" /\ fieldName \in StructFields
        /\ fn \in {"Input", "Textarea", "File", "Richtext", "Select"})
    => /\ EmittedName = S(JsonTag(fieldName))
       /\ fn # "Select" => EmittedValue = CurrentValueText(fieldName)
       /\ fn = "Select" =>
            \A j \in SelectedMapOptions :
                AttrOf(MapOptions(out)[j], "value") = CurrentValueText(fieldName)

\* The hidden inputs Tags wrote, and the checkbox inputs Checkbox wrote.
HiddenOpen == "<input type=\"hidden\" class=\"tag-"
CheckOpen == "<p class=\"col s6\">"

\* name is tag.i: the tag, a dot, and i in base 10.
IsMultiName(name, tag, i) ==
    /\ Len(name) >= 3
    /\ SubSeq(name, 1, 2) = <<tag, ".">>
    /\ IsDecimalOf(SubSeq(name, 3, Len(name)), i)

\* C5: Tags on a field with n saved tags writes exactly n hidden inputs, the
\* i-th (from 0, in slice order) named tag.i with the i-th saved tag as value;
\* Checkbox with n options writes exactly n checkbox inputs whose names are
\* tag.0 .. tag.(n-1), each index used exactly once.
C5_MultiValuedNames ==
    /\ (pc = "returned" /\ fn = "Tags") =>
        LET tags == p.v[fieldName]
        IN  /\ Cardinality(Pos(out, HiddenOpen)) = Len(tags)
            /\ \A i \in 1..Len(tags) :
                LET q == NthPos(out, HiddenOpen, i)
                IN  /\ IsMultiName(Between(out, q, "\" name=", " value=\""),
                                   JsonTag(fieldName), i - 1)
                    /\ Between(out, q, " value=\"", "\"/>") = tags[i]
    /\ (pc = "returned" /\ fn = "Checkbox") =>
        LET n == Cardinality(DOMAIN options)
            inputs == Pos(out, CheckOpen)
            nameAt(q) == Between(out, q, " name=\"", "\"")
        IN  /\ Cardinality(inputs) = n
            /\ \A i \in 0..(n - 1) :
                Cardinality({q \in inputs :
                                IsMultiName(nameAt(q), JsonTag(fieldName), i)}) = 1

\* C5 witness: Checkbox has returned the inputs of two or more options.
C5_Witness ==
    pc = "returned" /\ fn = "Checkbox" /\ Cardinality(DOMAIN options) >= 2

\* C6: in the markup of Select every entry of options yields exactly one option
\* element, whose value attribute is the key and whose text is the map value,
\* and that element carries the selected attribute if and only if the key is
\* the current string value of the field.
C6_SelectPreselection ==
    (pc = "returned" /\ fn = "Select" /\ fieldName \in StructFields
        /\ FieldKind(fieldName) = "string")
    => LET els == MapOptions(out)
           of(k) == {j \in 1..Len(els) :
                        "value" \in AttrNames(els[j]) /\ AttrOf(els[j], "value") = k}
       IN  /\ Len(els) = Cardinality(DOMAIN options)
           /\ \A k \in DOMAIN options :
                /\ Cardinality(of(k)) = 1
                /\ \A j \in of(k) :
                    /\ Unescape(TextOf(els[j])) = options[k]
                    /\ "selected" \in AttrNames(els[j]) <=> k = p.v[fieldName]

\* C6 witness: Select has returned two or more options, one of them the
\* field's current value.
C6_Witness ==
    /\ pc = "returned" /\ fn = "Select" /\ fieldName = "Title"
    /\ Cardinality(DOMAIN options) >= 2
    /\ p.v["Title"] \in DOMAIN options

\* The option elements of the select that carry the selected attribute.
SelectedOptions ==
    LET els == OptionElements(out)
    IN  {j \in 1..Len(els) : "selected" \in AttrNames(els[j])}

\* C8 (as claimed): at most one option element of a select carries the
\* selected attribute.
C8_AtMostOneSelected ==
    (pc = "returned" /\ fn = "Select") => Cardinality(SelectedOptions) <= 1

\* C8 (amended): the call to action, written first, always carries the
\* selected attribute, the reset never does, and at most one of the options
\* built from the options map does: at most two option elements in all.
C8_AtMostOneMapOptionSelected ==
    (pc = "returned" /\ fn = "Select")
    => /\ 1 \in SelectedOptions
       /\ 2 \notin SelectedOptions
       /\ Cardinality(SelectedMapOptions) <= 1
       /\ Cardinality(SelectedOptions) = 1 + Cardinality(SelectedMapOptions)

\* C8 witness: Select has returned an option of the map marked as selected
\* next to the call to action.
C8_Witness ==
    pc = "returned" /\ fn = "Select" /\ Cardinality(SelectedOptions) = 2

RECURSIVE SomeOrder(_)
\* An order a range statement can take over the keys K, the same whenever it
\* is asked for.
SomeOrder(K) ==
    IF K = {} THEN << >>
    ELSE LET k == CHOOSE x \in K : TRUE IN <<k>> \o SomeOrder(K \ {k})

\* The markup of a second call of the function with the arguments of the
\* first (the same fieldName and struct, an attrs map and an options map with
\* the contents they had when the first call was made), every range statement
\* of which takes SomeOrder.
SecondCall ==
    LET kidsOf(children) ==
            [i \in 1..Len(children) |-> SomeOrder(DOMAIN children[i].Attrs)]
        optOrd == SomeOrder(DOMAIN options)
    IN  CASE fn = "Input" ->
                Input(fieldName, p, argAttrs, SomeOrder(DOMAIN argAttrs.m))
          [] fn = "Textarea" ->
                Textarea(fieldName, p, argAttrs, SomeOrder(DOMAIN argAttrs.m))
          [] fn = "Timestamp" ->
                Timestamp(fieldName, p, argAttrs, SomeOrder(DOMAIN argAttrs.m))
          [] fn = "File" -> File(fieldName, p, argAttrs)
          [] fn = "Richtext" ->
                Richtext(fieldName, p, argAttrs,
                         SomeOrder(DOMAIN RichtextAttrs(fieldName, argAttrs.m)))
          [] fn = "Select" ->
                Select(fieldName, p, argAttrs, options,
                       SomeOrder(DOMAIN SelectAttrs(argAttrs.m)), optOrd,
                       kidsOf(SelectChildren(
                           ValueString(valueFromStructField(fieldName, p)), options, optOrd)))
          [] fn = "Checkbox" ->
                Checkbox(fieldName, p, argAttrs, options,
                         SomeOrder(DOMAIN CheckboxAttrs(argAttrs.m)), optOrd,
                         kidsOf(CheckboxChildren(fieldName, p,
                             ValueStrings(valueFromStructField(fieldName, p)).list,
                             options, optOrd)))
          [] OTHER -> Tags(fieldName, p, argAttrs)

\* The pieces of markup m: the bag of its atoms, each as often as it occurs,
\* put together from the bags of the two halves of m.
Pieces(m) ==
    LET part[lo \in 1..(Len(m) + 1), hi \in 0..Len(m)] ==
            IF hi < lo THEN EmptyBag
            ELSE IF lo = hi THEN SetToBag({m[lo]})
            ELSE LET mid == (lo + hi) \div 2
                 IN  part[lo, mid] (+) part[mid + 1, hi]
    IN  part[1, Len(m)]

\* The calls that range over no map with two or more entries: File and Tags
\* range over none; Input, Textarea and Timestamp range over attrs; Checkbox
\* ranges over attrs with its class entry, over options, and over the three or
\* four attributes of every input.  Richtext ranges over attrs with its class
\* and id entries, Select over the two attributes of its call to action.
RangesOverOneEntryAtMost ==
    \/ fn \in {"File", "Tags"}
    \/ fn \in {"Input", "Textarea", "Timestamp"} /\ Cardinality(DOMAIN argAttrs.m) <= 1
    \/ fn = "Checkbox" /\ DOMAIN argAttrs.m \subseteq {"class"} /\ DOMAIN options = {}

====
